---------------------------- MODULE Spec2Model ----------------------------
(***************************************************************************)
(* A model of index.js: a script that logs the base URL, then calls three  *)
(* report functions.  Each report issues one fetch() and attaches the      *)
(* promise chain  .then(response => response.json())                       *)
(*                .then(data => { ...console.log... })                     *)
(*                .catch(error => { console.error(...) }).                 *)
(* The model holds the script's position, the network's state per request, *)
(* the state of every promise of every chain, the microtask queue, the     *)
(* frame of the callback that is running, and the console.                 *)
(*                                                                         *)
(* A console entry is one console.log / console.error call.  Text is kept  *)
(* as the sequence of the pieces that the code concatenates.               *)
(***************************************************************************)
EXTENDS Integers, Sequences, FiniteSets, TLC

VARIABLES
  pc,          \* position of the top-level script
  requests,    \* URLs handed to fetch(), in call order
  net,         \* per report: the request/response as the network sees it
  prom,        \* per report: state of each promise of its chain
  microtasks,  \* FIFO queue of promise reaction jobs
  frame,       \* per report: frame of its running projection callback, or Idle
  console,     \* console calls so far, in order
  arrived,     \* reports whose response has arrived (fetch() fulfilled) and
               \* that have printed nothing yet, in the order of arrival
  finished,    \* reports whose network activity has ended and that have
               \* printed nothing yet, in the order it ended
  crashed      \* the process died of an unhandled rejection

vars == <<pc, requests, net, prom, microtasks, frame, console, arrived,
          finished, crashed>>

-----------------------------------------------------------------------------
(* Bounds of the model.                                                    *)

\* Longest `data` array a modelled response carries.
MaxData == 2

\* Sample texts of facts and breeds.
Texts == {"A", "B"}

-----------------------------------------------------------------------------
(* JavaScript values: uniform records [t, s, kids].                        *)

JUndefined == [t |-> "undefined", s |-> "", kids |-> <<>>]
JNull      == [t |-> "null", s |-> "", kids |-> <<>>]
JBool(b)   == [t |-> "boolean", s |-> b, kids |-> <<>>]
JStr(s)    == [t |-> "string", s |-> s, kids |-> <<>>]
JNum(d)    == [t |-> "number", s |-> d, kids |-> <<>>]
\* kids of an object: its members [key, val] in source order
JObj(ms)   == [t |-> "object", s |-> "", kids |-> ms]
JArr(es)   == [t |-> "array", s |-> "", kids |-> es]
\* an Error object; s is its name
JErr(name) == [t |-> "error", s |-> name, kids |-> <<>>]

Nullish(v) == v.t \in {"undefined", "null"}

\* v[key] for a non-nullish v: the last member of that name, else undefined.
Get(v, key) ==
  LET hits == IF v.t = "object"
              THEN {i \in 1..Len(v.kids) : v.kids[i].key = key}
              ELSE {}
  IN
  IF hits # {}
  THEN v.kids[CHOOSE i \in hits : \A j \in hits : j <= i].val
  ELSE JUndefined

-----------------------------------------------------------------------------
(* Response bodies are token sequences; response.json() parses them.       *)

Tok(k, v) == [k |-> k, v |-> v]
P(c) == Tok("p", c)      \* punctuation
S(s) == Tok("s", s)      \* a quoted string
N(d) == Tok("n", d)      \* a number
L(w) == Tok("l", w)      \* null, true, false
X(w) == Tok("x", w)      \* text that is no JSON token

PFail == [ok |-> FALSE, val |-> JUndefined, rest |-> <<>>]
POk(v, rest) == [ok |-> TRUE, val |-> v, rest |-> rest]
IsP(toks, c) == toks # <<>> /\ Head(toks) = P(c)

RECURSIVE ParseValue(_), ParseMembers(_, _), ParseElements(_, _)
ParseValue(toks) ==
  IF toks = <<>> THEN PFail
  ELSE LET h == Head(toks)
           r == Tail(toks)
       IN CASE h.k = "s" -> POk(JStr(h.v), r)
            [] h.k = "n" -> POk(JNum(h.v), r)
            [] h = L("null") -> POk(JNull, r)
            [] h \in {L("true"), L("false")} -> POk(JBool(h.v), r)
            [] h = P("{") -> IF IsP(r, "}") THEN POk(JObj(<<>>), Tail(r))
                             ELSE ParseMembers(r, <<>>)
            [] h = P("[") -> IF IsP(r, "]") THEN POk(JArr(<<>>), Tail(r))
                             ELSE ParseElements(r, <<>>)
            [] OTHER -> PFail

ParseMembers(toks, acc) ==
  IF Len(toks) < 2 \/ toks[1].k # "s" \/ toks[2] # P(":") THEN PFail
  ELSE LET pv == ParseValue(SubSeq(toks, 3, Len(toks))) IN
       IF ~pv.ok THEN PFail
       ELSE LET acc2 == Append(acc, [key |-> toks[1].v, val |-> pv.val]) IN
            IF IsP(pv.rest, "}") THEN POk(JObj(acc2), Tail(pv.rest))
            ELSE IF IsP(pv.rest, ",") THEN ParseMembers(Tail(pv.rest), acc2)
            ELSE PFail

ParseElements(toks, acc) ==
  LET pv == ParseValue(toks) IN
  IF ~pv.ok THEN PFail
  ELSE LET acc2 == Append(acc, pv.val) IN
       IF IsP(pv.rest, "]") THEN POk(JArr(acc2), Tail(pv.rest))
       ELSE IF IsP(pv.rest, ",") THEN ParseElements(Tail(pv.rest), acc2)
       ELSE PFail

\* A parse that never fails: what could not be parsed counts as undefined.
JsonParseLenient(body) == [ok |-> TRUE, val |-> ParseValue(body).val]

\* JSON.parse of a whole body: a value, or a SyntaxError.
JsonParse(body) ==
  LET pv == ParseValue(body) IN
  IF pv.ok /\ pv.rest = <<>> THEN [ok |-> TRUE, val |-> pv.val]
  ELSE [ok |-> FALSE, val |-> JErr("SyntaxError")]

-----------------------------------------------------------------------------
(* Conversion of values to text.                                           *)

\* String(v), as a template literal `${v}` converts v.
RECURSIVE StrOf(_), JoinStr(_)
StrOf(v) ==
  CASE v.t \in {"string", "number", "boolean", "error"} -> <<v.s>>
    [] v.t = "null" -> <<"null">>
    [] v.t = "undefined" -> <<"undefined">>
    [] v.t = "object" -> <<"[object Object]">>
    [] v.t = "array" -> JoinStr(v.kids)

JoinStr(es) ==
  IF es = <<>> THEN <<>>
  ELSE (IF Nullish(es[1]) THEN <<>> ELSE StrOf(es[1]))
       \o (IF Len(es) > 1 THEN <<",">> \o JoinStr(Tail(es)) ELSE <<>>)

\* console.log's rendering of an argument: a string as it is, anything
\* else as util.inspect shows it.
RECURSIVE InspectNested(_), InspectItems(_, _)
InspectNested(v) ==
  CASE v.t = "string" -> <<"'", v.s, "'">>
    [] v.t \in {"number", "boolean", "error"} -> <<v.s>>
    [] v.t = "null" -> <<"null">>
    [] v.t = "undefined" -> <<"undefined">>
    [] v.t = "object" ->
         IF v.kids = <<>> THEN <<"{}">>
         ELSE <<"{ ">> \o InspectItems(v.kids, TRUE) \o <<" }">>
    [] v.t = "array" ->
         IF v.kids = <<>> THEN <<"[]">>
         ELSE <<"[ ">> \o InspectItems(v.kids, FALSE) \o <<" ]">>

InspectItems(ks, keyed) ==
  IF ks = <<>> THEN <<>>
  ELSE (IF keyed THEN <<ks[1].key, ": ">> \o InspectNested(ks[1].val)
        ELSE InspectNested(ks[1]))
       \o (IF Len(ks) > 1 THEN <<", ">> \o InspectItems(Tail(ks), keyed)
           ELSE <<>>)

\* A rendering that quotes a string argument as util.inspect would.
InspectQuoted(v) == InspectNested(v)

Inspect(v) == IF v.t = "string" THEN <<v.s>> ELSE InspectNested(v)

-----------------------------------------------------------------------------
(* The script's constants and the three reports.                           *)

baseUrl == "https://catfact.ninja"

numberOfFacts == 3

Reports == {"getRandomFact", "getMultipleFacts", "getCatBreeds"}

\* The argument of fetch().
Url(r) ==
  CASE r = "getRandomFact" -> <<baseUrl, "/fact">>
    [] r = "getMultipleFacts" ->
         <<baseUrl, "/facts?limit=", ToString(numberOfFacts)>>
    [] r = "getCatBreeds" -> <<baseUrl, "/breeds">>

\* The first console.log of the projection callback.
Header(r) ==
  CASE r = "getRandomFact" -> <<"Random Cat Fact:">>
    [] r = "getMultipleFacts" ->
         <<"\n", ToString(numberOfFacts), " Random Cat Facts:">>
    [] r = "getCatBreeds" -> <<"\nList of Cat Breeds:">>

\* The first argument of console.error in the .catch callback.
ErrLabel(r) ==
  CASE r = "getRandomFact" -> "Error fetching random cat fact:"
    [] r = "getMultipleFacts" -> "Error fetching multiple cat facts:"
    [] r = "getCatBreeds" -> "Error fetching cat breeds:"

\* The property the projection reads of the body (fact report) or of each
\* record (list reports).
Field(r) == IF r = "getCatBreeds" THEN "breed" ELSE "fact"

\* Whether the projection walks data.data with forEach.
IsList(r) == r # "getRandomFact"

\* A chain whose .catch was left out.
ChainNoCatch == <<"json", "project">>

\* The handlers attached to fetch()'s promise, in order.
Chain == <<"json", "project", "catch">>

\* Promise i+1 of a chain is the one handler i returns; promise 1 is fetch()'s.
NumPromises == Len(Chain) + 1

-----------------------------------------------------------------------------
(* What the remote service may answer.                                     *)

SeqsUpTo(T, n) == UNION {[1..k -> T] : k \in 0..n}

RECURSIVE JoinToks(_)
JoinToks(es) ==
  IF es = <<>> THEN <<>>
  ELSE es[1] \o (IF Len(es) > 1 THEN <<P(",")>> \o JoinToks(Tail(es)) ELSE <<>>)

\* {"<field>": "<t>"}
RecToks(field, t) == <<P("{"), S(field), P(":"), S(t), P("}")>>

\* {"fact": "<t>", "length": 1}
FactBody(t) ==
  <<P("{"), S("fact"), P(":"), S(t), P(","), S("length"), P(":"), N("1"), P("}")>>

\* {"current_page": 1, "data": [ ... ]}
ListBody(es) ==
  <<P("{"), S("current_page"), P(":"), N("1"), P(","), S("data"), P(":"), P("[")>>
  \o JoinToks(es) \o <<P("]"), P("}")>>

\* The body of a list report whose records carry the texts ts.
ListOf(r, ts) == ListBody([i \in DOMAIN ts |-> RecToks(Field(r), ts[i])])

NullBody      == <<L("null")>>
EmptyObjBody  == <<P("{"), P("}")>>
HtmlBody      == <<X("<html>")>>
TruncatedBody == <<P("{"), S("data"), P(":"), P("[")>>
ErrorJsonBody == <<P("{"), S("message"), P(":"), S("Server Error"), P("}")>>

OkStatuses  == {200}
ErrStatuses == {500}
Statuses    == OkStatuses \cup ErrStatuses

\* Bodies the service sends with a success status: the shape the report
\* expects, a list with a null record, JSON of another shape, and a body
\* that is no JSON.
OkBodies(r) ==
  (IF IsList(r)
   THEN {ListOf(r, ts) : ts \in SeqsUpTo(Texts, MaxData)}
        \cup {ListBody(<<RecToks(Field(r), "A"), NullBody>>)}
   ELSE {FactBody(t) : t \in Texts})
  \cup {NullBody, EmptyObjBody, HtmlBody, TruncatedBody}

\* Bodies the service sends with an error status.
ErrBodies == {ErrorJsonBody, HtmlBody}

Bodies(r, status) == IF status \in OkStatuses THEN OkBodies(r) ELSE ErrBodies

\* A service of few answers: one body of the expected shape, one list with
\* a null record, one JSON body of another shape, one body that is no JSON.
FewBodies(r, status) ==
  IF status \in OkStatuses
  THEN (IF IsList(r)
        THEN {ListOf(r, <<"A">>), ListBody(<<RecToks(Field(r), "A"), NullBody>>)}
        ELSE {FactBody("A")})
       \cup {EmptyObjBody, HtmlBody}
  ELSE {ErrorJsonBody}

-----------------------------------------------------------------------------
(* State.                                                                  *)

NoNet == [st |-> "unsent", status |-> 0, body |-> <<>>]
Idle  == [h |-> 0, data |-> JUndefined, pos |-> "", index |-> 0]

Job(r, h, st, arg) == [rep |-> r, h |-> h, st |-> st, arg |-> arg]
Entry(ch, by, text) == [ch |-> ch, by |-> by, text |-> text]

\* q without r
Without(q, r) == SelectSeq(q, LAMBDA x : x # r)

Init ==
  /\ pc = "L5"
  /\ requests = <<>>
  /\ net = [r \in Reports |-> NoNet]
  /\ prom = [r \in Reports |-> <<>>]
  /\ microtasks = <<>>
  /\ frame = [r \in Reports |-> Idle]
  /\ console = <<>>
  /\ arrived = <<>>
  /\ finished = <<>>
  /\ crashed = FALSE

-----------------------------------------------------------------------------
(* The top-level script: one synchronous run to its end.                   *)

\* console.log("Base URL set up for CatFacts API:", baseUrl)
LogBaseUrl ==
  /\ pc = "L5"
  /\ console' = Append(console,
        Entry("log", "main", <<"Base URL set up for CatFacts API:", " ", baseUrl>>))
  /\ pc' = "L21"
  /\ UNCHANGED <<requests, net, prom, microtasks, frame, arrived, finished, crashed>>

\* A call of a report function: fetch(url) is issued, the handlers of Chain
\* are attached, and the function returns.
CallReport(r, at, next) ==
  /\ pc = at
  /\ requests' = Append(requests, Url(r))
  /\ net' = [net EXCEPT ![r] = [NoNet EXCEPT !.st = "inflight"]]
  /\ prom' = [prom EXCEPT ![r] = [i \in 1..NumPromises |-> "pending"]]
  /\ pc' = next
  /\ UNCHANGED <<microtasks, frame, console, arrived, finished, crashed>>

getRandomFact    == CallReport("getRandomFact", "L21", "L40")
getMultipleFacts == CallReport("getMultipleFacts", "L40", "L57")
getCatBreeds     == CallReport("getCatBreeds", "L57", "end")

-----------------------------------------------------------------------------
(* The event loop.                                                         *)

\* A loop that starts jobs and events while a callback is in mid-run.
StackEmptyPreempt == pc = "end"

\* Run to completion: a job or an event handler starts only when the
\* script has ended and no callback is in the middle of its run.
StackEmpty ==
  /\ pc = "end"
  /\ \A r \in Reports : frame[r] = Idle

\* A loop that takes network events while reaction jobs are still queued.
LoopIdleEager ==
  /\ ~crashed
  /\ pc = "end"
  /\ \A r \in Reports : frame[r] = Idle

\* The loop takes the next network event: the microtask queue is drained.
LoopIdle ==
  /\ ~crashed
  /\ StackEmpty
  /\ microtasks = <<>>

\* Jobs that wait until no request is outstanding.
MayRunJobAfterAll ==
  /\ ~crashed
  /\ pc = "end"
  /\ \A r \in Reports : frame[r] = Idle /\ net[r].st # "inflight"
  /\ microtasks # <<>>

\* A reaction job may start.
MayRunJob ==
  /\ ~crashed
  /\ StackEmpty
  /\ microtasks # <<>>

\* Promise i of report r settles; queue is the microtask queue it finds.
\* The reaction of handler i is queued; the last promise of the chain has
\* no handler, and its rejection is an unhandled rejection, which ends the
\* process.
Settle(r, i, st, arg, queue) ==
  /\ prom' = [prom EXCEPT ![r][i] = st]
  /\ microtasks' = IF i <= Len(Chain) THEN Append(queue, Job(r, i, st, arg))
                   ELSE queue
  /\ crashed' = (crashed \/ (i > Len(Chain) /\ st = "rejected"))

\* fetch() rejects: the transport failed.
FetchReject(r) ==
  /\ LoopIdle
  /\ net[r].st = "inflight"
  /\ net' = [net EXCEPT ![r].st = "failed"]
  /\ finished' = Append(finished, r)
  /\ Settle(r, 1, "rejected", JErr("TypeError"), microtasks)
  /\ UNCHANGED <<pc, requests, frame, console, arrived>>

\* fetch() fulfils with a Response as soon as the status line and headers
\* are in, whatever the status.
FetchRespond(r) ==
  /\ LoopIdle
  /\ net[r].st = "inflight"
  /\ \E status \in Statuses :
       net' = [net EXCEPT ![r] = [st |-> "headers", status |-> status, body |-> <<>>]]
  /\ arrived' = Append(arrived, r)
  /\ Settle(r, 1, "fulfilled", JUndefined, microtasks)
  /\ UNCHANGED <<pc, requests, frame, console, finished>>

\* A handler that does not apply to the state of its promise passes the
\* state on: a .then skips a rejection, a .catch skips a fulfilment.
PassThrough ==
  /\ MayRunJob
  /\ LET j == Head(microtasks) IN
     /\ (Chain[j.h] = "catch") = (j.st = "fulfilled")
     /\ Settle(j.rep, j.h + 1, j.st, j.arg, Tail(microtasks))
  /\ UNCHANGED <<pc, requests, net, frame, console, arrived, finished>>

\* response => response.json(): the body starts to be read; the promise the
\* handler returns stays pending until the read ends.
JsonCallback ==
  /\ MayRunJob
  /\ LET j == Head(microtasks) IN
     /\ Chain[j.h] = "json"
     /\ j.st = "fulfilled"
     /\ net' = [net EXCEPT ![j.rep].st = "reading"]
  /\ microtasks' = Tail(microtasks)
  /\ UNCHANGED <<pc, requests, prom, frame, console, arrived, finished, crashed>>

\* The promise of the "json" handler.
JsonPromise == 1 + CHOOSE i \in 1..Len(Chain) : Chain[i] = "json"

\* The body has been read to its end: response.json() settles with the
\* parsed value, or rejects with the SyntaxError of JSON.parse.  The body
\* is one of `bodies`.
BodyRead(r, bodies) ==
  /\ LoopIdle
  /\ net[r].st = "reading"
  /\ \E body \in bodies :
       /\ net' = [net EXCEPT ![r].st = "complete", ![r].body = body]
       /\ LET res == JsonParse(body) IN
          Settle(r, JsonPromise, IF res.ok THEN "fulfilled" ELSE "rejected",
                 res.val, microtasks)
  /\ finished' = Append(finished, r)
  /\ UNCHANGED <<pc, requests, frame, console, arrived>>

BodyDone(r) == BodyRead(r, Bodies(r, net[r].status))

\* The same against the service of few answers.
BodyDoneFew(r) == BodyRead(r, FewBodies(r, net[r].status))

\* The connection breaks while the body is read: response.json() rejects.
BodyAbort(r) ==
  /\ LoopIdle
  /\ net[r].st = "reading"
  /\ net' = [net EXCEPT ![r].st = "aborted"]
  /\ finished' = Append(finished, r)
  /\ Settle(r, JsonPromise, "rejected", JErr("TypeError"), microtasks)
  /\ UNCHANGED <<pc, requests, frame, console, arrived>>

-----------------------------------------------------------------------------
(* The projection callback (the second .then) and the .catch callback.     *)

\* The callback is entered with the parsed body as `data`.
ProjectStart ==
  /\ MayRunJob
  /\ LET j == Head(microtasks) IN
     /\ Chain[j.h] = "project"
     /\ j.st = "fulfilled"
     /\ frame' = [frame EXCEPT ![j.rep] =
                    [h |-> j.h, data |-> j.arg, pos |-> "header", index |-> 0]]
  /\ microtasks' = Tail(microtasks)
  /\ UNCHANGED <<pc, requests, net, prom, console, arrived, finished, crashed>>

\* The callback of report r returns.
Return(r) ==
  /\ frame' = [frame EXCEPT ![r] = Idle]
  /\ Settle(r, frame[r].h + 1, "fulfilled", JUndefined, microtasks)

\* The callback of report r throws a TypeError.
Throw(r) ==
  /\ frame' = [frame EXCEPT ![r] = Idle]
  /\ Settle(r, frame[r].h + 1, "rejected", JErr("TypeError"), microtasks)

\* The elements forEach visits.
Items(data) == Get(data, "data").kids

\* Numbering from forEach's 0-based index as it is.
ItemLineZeroBased(r, index, rec) ==
  <<ToString(index), ". ">> \o StrOf(Get(rec, Field(r)))

\* Numbering from a counter that all reports share.
ItemLineShared(r, index, rec) ==
  <<ToString(1 + Cardinality({i \in DOMAIN console :
                               console[i].ch = "log" /\ Len(console[i].text) = 3
                               /\ console[i].text[2] = ". "})), ". ">>
  \o StrOf(Get(rec, Field(r)))

\* `${index + 1}. ${fact.fact}`
ItemLine(r, index, rec) == <<ToString(index + 1), ". ">> \o StrOf(Get(rec, Field(r)))

\* console.log(<header>)
ProjHeader(r) ==
  /\ ~crashed
  /\ frame[r].pos = "header"
  /\ console' = Append(console, Entry("log", r, Header(r)))
  /\ frame' = [frame EXCEPT ![r].pos = IF IsList(r) THEN "forEach" ELSE "value"]
  /\ arrived' = Without(arrived, r)
  /\ finished' = Without(finished, r)
  /\ UNCHANGED <<pc, requests, net, prom, microtasks, crashed>>

\* console.log(data.fact), the last statement of the single-fact callback.
ProjValue(r) ==
  /\ ~crashed
  /\ frame[r].pos = "value"
  /\ IF Nullish(frame[r].data)
     THEN Throw(r) /\ UNCHANGED console
     ELSE /\ console' = Append(console,
                 Entry("log", r, Inspect(Get(frame[r].data, Field(r)))))
          /\ Return(r)
  /\ UNCHANGED <<pc, requests, net, arrived, finished>>

\* data.data.forEach(...): data.data must be there and be an array.
ProjForEach(r) ==
  /\ ~crashed
  /\ frame[r].pos = "forEach"
  /\ IF Nullish(frame[r].data) \/ Get(frame[r].data, "data").t # "array"
     THEN Throw(r)
     ELSE /\ frame' = [frame EXCEPT ![r].pos = "item"]
          /\ UNCHANGED <<prom, microtasks, crashed>>
  /\ UNCHANGED <<pc, requests, net, console, arrived, finished>>

\* One call of forEach's callback: console.log of the numbered line.
ProjItem(r) ==
  /\ ~crashed
  /\ frame[r].pos = "item"
  /\ frame[r].index < Len(Items(frame[r].data))
  /\ LET rec == Items(frame[r].data)[frame[r].index + 1] IN
     IF Nullish(rec)
     THEN Throw(r) /\ UNCHANGED console
     ELSE /\ console' = Append(console,
                 Entry("log", r, ItemLine(r, frame[r].index, rec)))
          /\ frame' = [frame EXCEPT ![r].index = @ + 1]
          /\ UNCHANGED <<prom, microtasks, crashed>>
  /\ UNCHANGED <<pc, requests, net, arrived, finished>>

\* forEach has visited every element: the callback returns.
ProjReturn(r) ==
  /\ ~crashed
  /\ frame[r].pos = "item"
  /\ frame[r].index >= Len(Items(frame[r].data))
  /\ Return(r)
  /\ UNCHANGED <<pc, requests, net, console, arrived, finished>>

\* error => { console.error(<label>, error) }
CatchHandler ==
  /\ MayRunJob
  /\ LET j == Head(microtasks) IN
     /\ Chain[j.h] = "catch"
     /\ j.st = "rejected"
     /\ console' = Append(console,
           Entry("error", j.rep, <<ErrLabel(j.rep), " ">> \o Inspect(j.arg)))
     /\ arrived' = Without(arrived, j.rep)
     /\ finished' = Without(finished, j.rep)
     /\ Settle(j.rep, j.h + 1, "fulfilled", JUndefined, Tail(microtasks))
  /\ UNCHANGED <<pc, requests, net, frame>>

-----------------------------------------------------------------------------

\* The steps of the loop once an event has come in: reaction jobs and the
\* statements of the projection callback.
Internal ==
  \/ PassThrough
  \/ JsonCallback
  \/ ProjectStart
  \/ \E r \in Reports : ProjHeader(r)
  \/ \E r \in Reports : ProjValue(r)
  \/ \E r \in Reports : ProjForEach(r)
  \/ \E r \in Reports : ProjItem(r)
  \/ \E r \in Reports : ProjReturn(r)
  \/ CatchHandler

Next ==
  \/ LogBaseUrl
  \/ getRandomFact
  \/ getMultipleFacts
  \/ getCatBreeds
  \/ \E r \in Reports : FetchReject(r)
  \/ \E r \in Reports : FetchRespond(r)
  \/ \E r \in Reports : BodyDone(r)
  \/ \E r \in Reports : BodyAbort(r)
  \/ Internal

Spec == Init /\ [][Next]_vars

\* The program against the service of few answers.
NextFew ==
  \/ LogBaseUrl
  \/ getRandomFact
  \/ getMultipleFacts
  \/ getCatBreeds
  \/ \E r \in Reports : FetchReject(r)
  \/ \E r \in Reports : FetchRespond(r)
  \/ \E r \in Reports : BodyDoneFew(r)
  \/ \E r \in Reports : BodyAbort(r)
  \/ Internal

\* The loop runs every job and callback that is ready, and a body read that
\* has begun ends (in success or in failure).  Nothing makes a fetch()
\* settle.
LiveSpec ==
  /\ Init
  /\ [][NextFew]_vars
  /\ WF_vars(Internal)
  /\ \A r \in Reports : WF_vars(BodyDoneFew(r) \/ BodyAbort(r))

-----------------------------------------------------------------------------
(* Vocabulary of the properties.                                           *)

\* The console calls of report r, in order.
By(r) == SelectSeq(console, LAMBDA e : e.by = r)

IsPrefix(a, b) == Len(a) <= Len(b) /\ SubSeq(b, 1, Len(a)) = a

\* The last promise of r's chain has settled: the chain has run to its end.
ChainEnded(r) == prom[r] # <<>> /\ prom[r][Len(prom[r])] # "pending"

HeaderEntry(r) == Entry("log", r, Header(r))
ErrorEntry(r, name) == Entry("error", r, <<ErrLabel(r), " ", name>>)
HasError(r) == \E i \in DOMAIN console : console[i].by = r /\ console[i].ch = "error"
HasLog(r) == \E i \in DOMAIN console : console[i].by = r /\ console[i].ch = "log"

\* Bodies that are no JSON text.
NonJson == {HtmlBody, TruncatedBody}

-----------------------------------------------------------------------------
(* C1: a response whose status is 400 or more makes the pipeline fail      *)
(* before the body is touched: for such a response the body is never read  *)
(* or parsed and the projection (header and data lines) never runs.        *)
C1_ErrorStatusSkipsBody ==
  \A r \in Reports :
    net[r].status >= 400 =>
      /\ net[r].st \notin {"reading", "complete", "aborted"}
      /\ frame[r] = Idle
      /\ ~HasLog(r)

-----------------------------------------------------------------------------
(* C2: a report that fails, in whichever way (transport rejection, body    *)
(* that is no JSON, parsed body without the expected field or the data     *)
(* array, a null record in the array), prints exactly one error entry and  *)
(* nothing else: no header and no numbered line goes with an error entry.  *)

\* The parsed body lacks what the projection of r reads.
BadShape(r, data) ==
  IF IsList(r)
  THEN \/ Nullish(data)
       \/ Get(data, "data").t # "array"
       \/ \E i \in DOMAIN Items(data) : Nullish(Items(data)[i])
  ELSE Nullish(data) \/ Get(data, Field(r)).t = "undefined"

Failed(r) ==
  \/ net[r].st \in {"failed", "aborted"}
  \/ /\ net[r].st = "complete"
     /\ \/ net[r].body \in NonJson
        \/ BadShape(r, ParseValue(net[r].body).val)

\* C2: an error entry of a report is its only entry, and a report that has
\* failed and ended has printed its error entry.
C2_FailedReportPrintsOnlyError ==
  \A r \in Reports :
    /\ HasError(r) => Len(By(r)) = 1
    /\ (ChainEnded(r) /\ Failed(r)) => (HasError(r) /\ Len(By(r)) = 1)

-----------------------------------------------------------------------------
(* C3: when the body of a response is no valid JSON, response.json()       *)
(* rejects with the parser's SyntaxError, the projection callback of that  *)
(* report never runs (no frame, no header, no data line), and the report's *)
(* .catch handler runs instead: once the chain has ended, the report's     *)
(* only output is its error entry carrying the SyntaxError.                *)
C3_NonJsonGoesToCatch ==
  \A r \in Reports :
    (net[r].st = "complete" /\ net[r].body \in NonJson) =>
      /\ prom[r][JsonPromise] = "rejected"
      /\ frame[r] = Idle
      /\ ~HasLog(r)
      /\ IsPrefix(By(r), <<ErrorEntry(r, "SyntaxError")>>)
      /\ ChainEnded(r) => By(r) = <<ErrorEntry(r, "SyntaxError")>>

\* Every report got a body that is no JSON, two of them with status 200 and
\* one with an error status, and each has printed its error entry.
C3_Witness ==
  /\ \A r \in Reports :
       /\ net[r].st = "complete"
       /\ net[r].body \in NonJson
       /\ ChainEnded(r)
       /\ HasError(r)
  /\ net["getCatBreeds"].body = TruncatedBody
  /\ net["getRandomFact"].body = HtmlBody
  /\ net["getMultipleFacts"].status = 500

-----------------------------------------------------------------------------
(* C4: every failure of every stage of a chain (fetch() rejecting,         *)
(* response.json() rejecting, the projection throwing) reaches that        *)
(* chain's .catch handler and becomes a logged entry: a rejected promise   *)
(* always has a rejection handler further down its chain, the process      *)
(* never dies of an unhandled rejection, and a chain that has ended with   *)
(* a rejected promise in it has logged its error.                          *)
C4_EveryFailureCaught ==
  /\ ~crashed
  /\ \A r \in Reports : \A i \in DOMAIN prom[r] :
       prom[r][i] = "rejected" =>
         /\ \E k \in i..Len(Chain) : Chain[k] = "catch"
         /\ ChainEnded(r) => HasError(r)

\* One chain failed in fetch(), one in response.json(), one in the
\* projection; all three have ended and logged.
C4_Witness ==
  \E a, b, c \in Reports :
    /\ prom[a] = <<"rejected", "rejected", "rejected", "fulfilled">>
    /\ prom[b] = <<"fulfilled", "rejected", "rejected", "fulfilled">>
    /\ prom[c] = <<"fulfilled", "fulfilled", "rejected", "fulfilled">>
    /\ HasError(a) /\ HasError(b) /\ HasError(c)

-----------------------------------------------------------------------------
(* C5: isolation.  What a report prints is a function of its own response  *)
(* alone, whatever the other reports do and in whatever order the          *)
(* completions interleave: at every moment its entries are a prefix of,    *)
(* and once its chain has ended they equal, the output computed from its   *)
(* own response; and all three requests have been issued before anything   *)
(* can fail.                                                               *)

RECURSIVE ExpectedItems(_, _, _)
ExpectedItems(r, items, i) ==
  IF i > Len(items) THEN <<>>
  ELSE IF Nullish(items[i]) THEN <<ErrorEntry(r, "TypeError")>>
  ELSE <<Entry("log", r, <<ToString(i), ". ">> \o StrOf(Get(items[i], Field(r))))>>
       \o ExpectedItems(r, items, i + 1)

\* The entries of report r as a function of n, the response it received.
ExpectedFor(r, n) ==
  CASE n.st \in {"failed", "aborted"} -> <<ErrorEntry(r, "TypeError")>>
    [] n.st = "complete" ->
         LET res == JsonParse(n.body) IN
         IF ~res.ok THEN <<ErrorEntry(r, "SyntaxError")>>
         ELSE <<HeaderEntry(r)>> \o
              (IF IsList(r)
               THEN IF Nullish(res.val) \/ Get(res.val, "data").t # "array"
                    THEN <<ErrorEntry(r, "TypeError")>>
                    ELSE ExpectedItems(r, Get(res.val, "data").kids, 1)
               ELSE IF Nullish(res.val) THEN <<ErrorEntry(r, "TypeError")>>
                    ELSE <<Entry("log", r, Inspect(Get(res.val, Field(r))))>>)
    [] OTHER -> <<>>

\* C5: once anything has been answered all three requests are out, and
\* each report's entries follow from its own response.
C5_Isolation ==
  /\ (\E r \in Reports : net[r].st \notin {"unsent", "inflight"}) =>
       \A r \in Reports : \E i \in DOMAIN requests : requests[i] = Url(r)
  /\ \A r \in Reports :
       LET expected == ExpectedFor(r, net[r]) IN
       IF ChainEnded(r) THEN By(r) = expected ELSE IsPrefix(By(r), expected)

\* The multi-fact report printed the full list of its own response between
\* the error of the single-fact report, which failed before it, and the
\* error of the breeds report, which failed after it.
C5_Witness ==
  /\ \A r \in Reports : ChainEnded(r)
  /\ net["getMultipleFacts"].body = ListOf("getMultipleFacts", <<"A", "B">>)
  /\ net["getRandomFact"].st = "failed"
  /\ net["getCatBreeds"].body = HtmlBody
  /\ Len(console) = 6
  /\ console[2].by = "getRandomFact"
  /\ console[3].by = "getMultipleFacts"
  /\ console[6].by = "getCatBreeds"

-----------------------------------------------------------------------------
(* C6: the requests are issued in source order, and nothing of a response  *)
(* is handled before all three report functions have returned; the output  *)
(* blocks then appear in the order of the completions.                     *)

SourceOrder == <<Url("getRandomFact"), Url("getMultipleFacts"), Url("getCatBreeds")>>

\* Some response or callback has been handled.
Handled ==
  \/ microtasks # <<>>
  \/ \E r \in Reports : \/ frame[r] # Idle
                        \/ net[r].st \notin {"unsent", "inflight"}
                        \/ By(r) # <<>>

\* Report r has printed nothing and its next step prints its first entry.
AboutToPrint(r) ==
  /\ By(r) = <<>>
  /\ \/ frame[r].pos = "header"
     \/ /\ microtasks # <<>>
        /\ Head(microtasks).rep = r
        /\ Chain[Head(microtasks).h] = "catch"
        /\ Head(microtasks).st = "rejected"

IssuedInOrder ==
  /\ IsPrefix(requests, SourceOrder)
  /\ Handled => (pc = "end" /\ requests = SourceOrder)

-----------------------------------------------------------------------------
-----------------------------------------------------------------------------
(* C8: for the multi-fact and the breeds report and a response whose data  *)
(* is a sequence of n records, the output is the header followed by        *)
(* exactly n entries, the i-th being "i. " and the field of the i-th       *)
(* record as received: input order, nothing skipped, duplicates kept.      *)

\* For each list report and each sequence ts of sample texts: the body whose
\* data holds the records of ts, and the header and numbered entries for ts.
ListCases ==
  {[r |-> r,
    body |-> ListOf(r, ts),
    out |-> <<HeaderEntry(r)>> \o
            [i \in 1..Len(ts) |-> Entry("log", r, <<ToString(i), ". ", ts[i]>>)]] :
     r \in {q \in Reports : IsList(q)}, ts \in SeqsUpTo(Texts, MaxData)}

\* C8: a list report that got the records ts prints the header and the
\* numbered entries of ts, in the order of ts.
C8_NumberedInInputOrder ==
  \A c \in ListCases :
    (net[c.r].st = "complete" /\ net[c.r].body = c.body) =>
      IF ChainEnded(c.r) THEN By(c.r) = c.out ELSE IsPrefix(By(c.r), c.out)

\* One list report got its records out of alphabetical order, the other got
\* the same record twice; both have ended.
C8_Witness ==
  /\ net["getMultipleFacts"].body = ListOf("getMultipleFacts", <<"B", "A">>)
  /\ net["getCatBreeds"].body = ListOf("getCatBreeds", <<"A", "A">>)
  /\ ChainEnded("getMultipleFacts") /\ Len(By("getMultipleFacts")) = 3
  /\ ChainEnded("getCatBreeds") /\ Len(By("getCatBreeds")) = 3

-----------------------------------------------------------------------------
(* C9: for a well-formed {fact, length} body with status 200 the           *)
(* single-fact report prints the entry "Random Cat Fact:" and then one     *)
(* entry holding the fact text, and nothing else.                          *)
C9_SingleFactOutput ==
  \A t \in Texts :
    LET r == "getRandomFact" IN
    (net[r].st = "complete" /\ net[r].status = 200 /\ net[r].body = FactBody(t)) =>
      /\ IsPrefix(By(r), <<HeaderEntry(r), Entry("log", r, <<t>>)>>)
      /\ ChainEnded(r) => By(r) = <<HeaderEntry(r), Entry("log", r, <<t>>)>>

C9_Witness ==
  /\ net["getRandomFact"].body = FactBody("B")
  /\ ChainEnded("getRandomFact")
  /\ Len(By("getRandomFact")) = 2

-----------------------------------------------------------------------------
(* C10: the entries a report logs (its header and its data lines) are one  *)
(* contiguous block of the console: no entry of another report, log or     *)
(* error, lies between two of them.                                        *)
C10_BlocksContiguous ==
  \A i, k \in DOMAIN console :
    (i < k /\ console[i].by = console[k].by
       /\ console[i].ch = "log" /\ console[k].ch = "log") =>
      \A j \in i..k : console[j].by = console[i].by

\* A block of a header and two numbered lines lies between the output of
\* the two other reports.
C10_Witness ==
  /\ \A r \in Reports : ChainEnded(r)
  /\ Len(By("getCatBreeds")) = 3 /\ ~HasError("getCatBreeds")
  /\ console[2].by = "getMultipleFacts"
  /\ console[Len(console)].by = "getRandomFact"
  /\ HasLog("getRandomFact")

=============================================================================
